---- MODULE Spec2Model ----
(***************************************************************************)
(* State-machine model of LawScraper (src/src/scaper.py): the identifier   *)
(* and ordering utility, the bounded concurrent downloader                 *)
(* (download_all_pdfs / download_single_pdf), the extraction of the        *)
(* records of a group page and the stages of start_download.               *)
(*                                                                         *)
(* Strings the code inspects character by character (file names, titles)   *)
(* are sequences of one-character strings.                                 *)
(***************************************************************************)
EXTENDS Integers, Sequences, FiniteSets, TLC

VARIABLES
    SEMAPHORE_LIMIT,  \* self.SEMAPHORE_LIMIT, the gate capacity K
    dir,              \* DIR/ALPHAB_LAWS_LIST_DIR: file name -> loaded JSON content
    files,            \* PDF_DIR: destination path -> bytes ("" is an empty file)
    pc,               \* position of async_download_all_pdfs
    sort_law,         \* the sorted group file names
    index,            \* loop index of "for index, law in enumerate(sort_law)"
    semaphore,        \* asyncio.Semaphore._value
    tasks,            \* the coroutines of the current group, in list order
    sleeps,           \* number of asyncio.sleep(DELAY_BETWEEN_LAWS) calls so far
    written,          \* destination path -> body of the latest 200 transfer of this run
    fn,               \* a helper called on its own: its name
    arg,              \* ... its argument
    ret,              \* ... <<>> until it has returned, then <<outcome>>
    stage,            \* the call start_download is in
    error,            \* the exception that ended start_download there, "" for none
    web,              \* the responses received so far: request -> response
    data,             \* DIR: home_page_list.json and laws_list.json, name -> content
    laws_list,        \* the list get_laws_alphabetically_list returned
    pending,          \* get_laws_by_alphabet: the fetch_law_details tasks not yet ended
    laws_info,        \* get_laws_by_alphabet: the list the tasks extend
    order,            \* the tasks that extended laws_info, in the order they did
    full_writes       \* number of times full_laws_list.json was written

purevars == <<fn, arg, ret>>

crawlvars == <<stage, error, web, data, laws_list, pending, laws_info, order, full_writes>>

vars == <<SEMAPHORE_LIMIT, dir, files, pc, sort_law, index, semaphore, tasks, sleeps,
          written, purevars, crawlvars>>

(***************************************************************************)
(* Bounds of the model.                                                    *)
(***************************************************************************)
MaxK == 7           \* gate capacities 1..MaxK
MaxGroups == 2      \* at most this many group files in the directory

(***************************************************************************)
(* Program constants.                                                      *)
(***************************************************************************)
DefaultMaxRetries == 5      \* max_retries: int = 5
DefaultRetries == 0         \* retries: int = 0

(***************************************************************************)
(* Characters.                                                             *)
(***************************************************************************)
Digits == <<"0", "1", "2", "3", "4", "5", "6", "7", "8", "9">>

AsciiLetters ==
    <<"A", "B", "C", "D", "E", "F", "G", "H", "I", "J", "K", "L", "M",
      "N", "O", "P", "Q", "R", "S", "T", "U", "V", "W", "X", "Y", "Z",
      "a", "b", "c", "d", "e", "f", "g", "h", "i", "j", "k", "l", "m",
      "n", "o", "p", "q", "r", "s", "t", "u", "v", "w", "x", "y", "z">>

Range(s) == {s[i] : i \in DOMAIN s}

IsDigit(c) == c \in Range(Digits)

IsLetter(c) == c \in Range(AsciiLetters)

\* position of a character in its class, in code-point order
PosIn(c, s) == CHOOSE i \in DOMAIN s : s[i] = c

DigitVal(c) == PosIn(c, Digits) - 1

EndsWith(s, suf) ==
    /\ Len(s) >= Len(suf)
    /\ SubSeq(s, Len(s) - Len(suf) + 1, Len(s)) = suf

DropLast(s, n) == SubSeq(s, 1, Len(s) - n)

\* int(identifier)
RECURSIVE ToInt(_)
ToInt(ds) ==
    IF ds = <<>> THEN 0
    ELSE 10 * ToInt(DropLast(ds, 1)) + DigitVal(ds[Len(ds)])

(***************************************************************************)
(* extract_laws_identifier: re.search(r'_(\d+|[A-Za-z])\.json$', name).    *)
(* None is the empty sequence: no identifier is empty.                     *)
(***************************************************************************)
None == <<>>

JsonSuffix == <<".", "j", "s", "o", "n">>

\* '$' matches at the end, and before a newline that ends the string
BeforeSuffix(file_name) ==
    IF EndsWith(file_name, JsonSuffix)
        THEN <<DropLast(file_name, Len(JsonSuffix))>>
    ELSE IF EndsWith(file_name, JsonSuffix \o <<"\n">>)
        THEN <<DropLast(file_name, Len(JsonSuffix) + 1)>>
    ELSE <<>>

\* length of the run of digits that ends s
RECURSIVE DigitRun(_)
DigitRun(s) ==
    IF s = <<>> \/ ~IsDigit(s[Len(s)]) THEN 0
    ELSE 1 + DigitRun(DropLast(s, 1))

extract_laws_identifier(file_name) ==
    LET stem == BeforeSuffix(file_name) IN
    IF stem = <<>> THEN None
    ELSE
        LET s == stem[1]
            n == Len(s)
            d == DigitRun(s)
        IN  IF d >= 1 /\ n > d /\ s[n - d] = "_"
                THEN SubSeq(s, n - d + 1, n)
            ELSE IF n >= 2 /\ IsLetter(s[n]) /\ s[n - 1] = "_"
                THEN <<s[n]>>
            ELSE None

(***************************************************************************)
(* sort_files: sorted(files, key=sort_key), a stable sort.                 *)
(***************************************************************************)
\* identifier.isalpha() for an identifier the pattern produced
IsAlpha(identifier) == \A i \in DOMAIN identifier : IsLetter(identifier[i])

\* numeric identifiers keyed by their leading digit, as text would compare
sort_key_as_text(file_name) ==
    LET identifier == extract_laws_identifier(file_name) IN
    IF identifier = None THEN <<2, 0>>
    ELSE IF IsAlpha(identifier) THEN <<0, PosIn(identifier[1], AsciiLetters)>>
    ELSE <<1, DigitVal(identifier[1])>>

\* (float('inf'), '') is rank 2: only its rank is ever compared with 0 and 1
sort_key(file_name) ==
    LET identifier == extract_laws_identifier(file_name) IN
    IF identifier = None THEN <<2, 0>>
    ELSE IF IsAlpha(identifier) THEN <<0, PosIn(identifier[1], AsciiLetters)>>
    ELSE <<1, ToInt(identifier)>>

\* tuple comparison k1 < k2
KeyLessRankOnly(k1, k2) == k1[1] < k2[1]

KeyLess(k1, k2) == k1[1] < k2[1] \/ (k1[1] = k2[1] /\ k1[2] < k2[2])

\* insert x behind every element whose key is not greater (stability)
RECURSIVE InsertSorted(_, _)
InsertSorted(x, s) ==
    IF s = <<>> THEN <<x>>
    ELSE IF KeyLess(sort_key(x), sort_key(s[Len(s)]))
        THEN Append(InsertSorted(x, DropLast(s, 1)), s[Len(s)])
    ELSE Append(s, x)

RECURSIVE sort_files(_)
sort_files(fs) ==
    IF fs = <<>> THEN <<>>
    ELSE InsertSorted(fs[Len(fs)], sort_files(DropLast(fs, 1)))

(***************************************************************************)
(* sanitize_filename: replace "/" and "\" by "_".                          *)
(***************************************************************************)
sanitize_filename(file_name) ==
    [i \in DOMAIN file_name |->
        IF file_name[i] \in {"/", "\\"} THEN "_" ELSE file_name[i]]

(***************************************************************************)
(* The directory of persisted group files this model draws from.           *)
(***************************************************************************)
Teilliste_B == <<"T", "_", "B", ".", "j", "s", "o", "n">>
Teilliste_a == <<"T", "_", "a", ".", "j", "s", "o", "n">>
Teilliste_2 == <<"T", "_", "2", ".", "j", "s", "o", "n">>
Teilliste_10 == <<"T", "_", "1", "0", ".", "j", "s", "o", "n">>
Sonstige == <<"s", "o", "n", "s", "t", ".", "j", "s", "o", "n">>
full_laws_list == <<"f", "u", "l", "l", ".", "j", "s", "o", "n">>

NoLink == "None"    \* 'pdf_link': None

Record(title, pdf_link) == [title |-> title, pdf_link |-> pdf_link]

GroupFiles ==
    (Teilliste_B :> <<Record(<<"c">>, "u1"), Record(<<"a", "/", "b">>, "u2")>>)
    @@ (Teilliste_a :> <<Record(<<"a", "/", "b">>, "u2"), Record(<<"a", "_", "b">>, "u3")>>)
    @@ (Teilliste_2 :> <<Record(<<"c">>, "u1"), Record(<<"d">>, NoLink)>>)
    @@ (Teilliste_10 :> <<>>)
    @@ (Sonstige :> <<Record(<<"c">>, "u1")>>)

Restrict(f, S) == [x \in S |-> f[x]]

Directories ==
    {Restrict(GroupFiles, S) @@ (full_laws_list :> <<>>) :
        S \in {T \in SUBSET DOMAIN GroupFiles : Cardinality(T) <= MaxGroups}}

\* bodies a 200 response may carry
Bodies == {"%PDF-1", "%PDF-2"}

NoFiles == <<>>

Put(f, k, v) == [x \in DOMAIN f \cup {k} |-> IF x = k THEN v ELSE f[x]]

PdfExt == <<".", "p", "d", "f">>

\* os.path.join(PDF_DIR, identifier, sanitize_filename(title) + ".pdf")
PdfPath(identifier, title) == <<identifier, sanitize_filename(title) \o PdfExt>>

StaleFiles == Put(NoFiles, PdfPath(<<"B">>, <<"o", "l", "d">>), "%PDF-0")

(***************************************************************************)
(* list_files_in_directory(directory, exclude_file), as a set: os.listdir  *)
(* returns the names in arbitrary order.                                   *)
(***************************************************************************)
list_files_in_directory(d, exclude_file) == DOMAIN d \ {exclude_file}

\* the orders in which os.listdir may return a set of names
Listings(S) ==
    {s \in [1..Cardinality(S) -> S] : \A x \in S : \E i \in DOMAIN s : s[i] = x}

(***************************************************************************)
(* download_single_pdf.                                                    *)
(***************************************************************************)
\* what one "session.get ... response.read()" attempt may end with:
\*   "200"                 status 200 and the body read
\*   "status"              a response whose status is not 200
\*   "ClientOSError"       aiohttp.ClientOSError raised by session.get
\*   "TimeoutError"        the 60 s ClientTimeout expires in session.get
\*   "TimeoutError_read"   status 200, then the timeout expires in response.read()
\*   "Exception"           any other exception (session.get(None), open() failing)
Outcomes(pdf_link) ==
    IF pdf_link = NoLink THEN {"Exception"}
    ELSE {"200", "status", "ClientOSError",
          "TimeoutError", "TimeoutError_read", "Exception"}

\* the attempts that reach "with open(pdf_path, 'wb') as f"
Opens(outcome) == outcome \in {"200", "TimeoutError_read"}

\* the branch of the try statement that handles the outcome
HandlerStatusRetried(outcome) ==
    CASE outcome = "200" -> "written"
      [] outcome \in {"status", "ClientOSError"} -> "ClientOSError"
      [] OTHER -> "Exception"

HandlerRaises(outcome) ==
    CASE outcome = "200" -> "written"
      [] outcome = "status" -> "status"
      [] outcome = "ClientOSError" -> "ClientOSError"
      [] OTHER -> "raise"

Handler(outcome) ==
    CASE outcome = "200" -> "written"
      [] outcome = "status" -> "status"
      [] outcome = "ClientOSError" -> "ClientOSError"
      [] OTHER -> "Exception"

\* "if retries < max_retries"
ShouldRetryInclusive(retries, max_retries) == retries <= max_retries

ShouldRetry(retries, max_retries) == retries < max_retries

\* "await asyncio.sleep(2 ** retries)"
BackoffLinear(retries) == 2 * retries

Backoff(retries) == 2 ^ retries

\* Semaphore.acquire proceeds when the value is positive
CanAcquireAlways(value) == TRUE

CanAcquire(value) == value > 0

\* a coroutine as download_all_pdfs creates it, waiting at "async with semaphore"
NewTask(pdf_path, pdf_link, retries, max_retries) ==
    [pc |-> "acquiring", pdf_path |-> pdf_path, pdf_link |-> pdf_link,
     retries |-> retries, max_retries |-> max_retries,
     held |-> 0,          \* frames of the call chain inside "async with semaphore"
     attempts |-> 0,      \* session.get calls made
     delays |-> <<>>,     \* the backoff sleeps made, in order
     last |-> "",         \* how the latest attempt ended
     writes |-> 0,        \* times the coroutine opened pdf_path for writing
     body |-> ""]         \* the body the latest attempt read

Terminal == {"Succeeded", "PermanentlyFailed", "Abandoned"}

\* "for task in as_completed(tasks): await task" has run out
AllDone(ts) == \A i \in DOMAIN ts : ts[i].pc \in Terminal

\* "if index < len(sort_law) - 1"
NeedsPacingAlways(i, n) == i < n

NeedsPacing(i, n) == i < n - 1

\* no helper is being called on its own
NoCall == fn = "" /\ arg = <<>> /\ ret = <<>>

\* download_all_pdfs is called on its own, after an earlier crawl
NoCrawl ==
    /\ stage = "download_all_pdfs"
    /\ error = ""
    /\ web = <<>>
    /\ data = <<>>
    /\ laws_list = <<>>
    /\ pending = {}
    /\ laws_info = <<>>
    /\ order = <<>>
    /\ full_writes = 0

(***************************************************************************)
(* Initial states: a configured scraper, a directory of group files and a  *)
(* possibly non-empty artifact directory, before download_all_pdfs.        *)
(***************************************************************************)
Init ==
    /\ SEMAPHORE_LIMIT \in 1..MaxK
    /\ dir \in Directories
    /\ files \in {NoFiles, StaleFiles}
    /\ pc = "start"
    /\ sort_law = <<>>
    /\ index = 0
    /\ semaphore = 0
    /\ tasks = <<>>
    /\ sleeps = 0
    /\ written = NoFiles
    /\ NoCall
    /\ NoCrawl

(***************************************************************************)
(* async_download_all_pdfs, lines 313-322: rmtree, makedirs, list, sort,   *)
(* create the semaphore.                                                   *)
(***************************************************************************)
StartRun ==
    /\ pc = "start"
    /\ \E laws \in Listings(list_files_in_directory(dir, full_laws_list)) :
          sort_law' = sort_files(laws)
    /\ files' = NoFiles
    /\ semaphore' = SEMAPHORE_LIMIT
    /\ index' = 0
    /\ written' = NoFiles
    /\ pc' = IF Len(sort_law') = 0 THEN "done" ELSE "loop"
    /\ UNCHANGED <<crawlvars, purevars, SEMAPHORE_LIMIT, dir, tasks, sleeps>>

(***************************************************************************)
(* One loop iteration up to as_completed, lines 325-337.  os.path.join     *)
(* raises TypeError for an identifier of None and the run ends with it.    *)
(***************************************************************************)
SubmitGroup ==
    /\ pc = "loop"
    /\ LET law == sort_law[index + 1]
           identifier == extract_laws_identifier(law)
           content == dir[law]
       IN  IF identifier = None
             THEN /\ pc' = "crashed"
                  /\ tasks' = tasks
             ELSE /\ pc' = "awaiting"
                  /\ tasks' = [i \in DOMAIN content |->
                                 NewTask(PdfPath(identifier, content[i].title),
                                         content[i].pdf_link,
                                         DefaultRetries, DefaultMaxRetries)]
    /\ UNCHANGED <<crawlvars, purevars, written, SEMAPHORE_LIMIT, dir, files, sort_law, index, semaphore, sleeps>>

(***************************************************************************)
(* "async with semaphore", line 361, followed by session.get.              *)
(***************************************************************************)
Acquire(t) ==
    /\ pc = "awaiting"
    /\ tasks[t].pc = "acquiring"
    /\ CanAcquire(semaphore)
    /\ semaphore' = semaphore - 1
    /\ tasks' = [tasks EXCEPT ![t].pc = "transferring",
                              ![t].held = @ + 1,
                              ![t].attempts = @ + 1]
    /\ UNCHANGED <<crawlvars, purevars, written, SEMAPHORE_LIMIT, dir, files, pc, sort_law, index, sleeps>>

(***************************************************************************)
(* The end of one attempt, lines 363-377.  A coroutine that ends leaves    *)
(* every "async with semaphore" of its call chain, releasing each.         *)
(***************************************************************************)
Finish(task, state) == [task EXCEPT !.pc = state, !.held = 0]

Complete(t) ==
    /\ pc = "awaiting"
    /\ tasks[t].pc = "transferring"
    /\ \E outcome \in Outcomes(tasks[t].pdf_link), body \in Bodies :
        LET task == [tasks[t] EXCEPT !.last = outcome,
                                     !.body = IF outcome = "200" THEN body ELSE "",
                                     !.writes = IF Opens(outcome) THEN @ + 1 ELSE @]
            handler == Handler(outcome)
        IN  /\ files' = IF Opens(outcome)
                          THEN Put(files, task.pdf_path, task.body)
                          ELSE files
            /\ written' = IF outcome = "200"
                            THEN Put(written, task.pdf_path, task.body)
                            ELSE written
            /\ CASE handler = "written" ->
                      /\ tasks' = [tasks EXCEPT ![t] = Finish(task, "Succeeded")]
                      /\ semaphore' = semaphore + task.held
                      /\ pc' = pc
                 [] handler = "status" ->
                      /\ tasks' = [tasks EXCEPT ![t] = Finish(task, "PermanentlyFailed")]
                      /\ semaphore' = semaphore + task.held
                      /\ pc' = pc
                 [] handler = "ClientOSError" ->
                      IF ShouldRetry(task.retries, task.max_retries)
                        THEN /\ tasks' = [tasks EXCEPT ![t] =
                                            [task EXCEPT !.pc = "backoff",
                                                         !.delays = Append(@, Backoff(task.retries))]]
                             /\ semaphore' = semaphore
                             /\ pc' = pc
                        ELSE /\ tasks' = [tasks EXCEPT ![t] = Finish(task, "PermanentlyFailed")]
                             /\ semaphore' = semaphore + task.held
                             /\ pc' = pc
                 [] handler = "Exception" ->
                      /\ tasks' = [tasks EXCEPT ![t] = Finish(task, "Abandoned")]
                      /\ semaphore' = semaphore + task.held
                      /\ pc' = pc
                 [] OTHER ->   \* an exception no except clause catches
                      /\ tasks' = [tasks EXCEPT ![t] = Finish(task, "Abandoned")]
                      /\ semaphore' = semaphore + task.held
                      /\ pc' = "crashed"
    /\ UNCHANGED <<crawlvars, purevars, SEMAPHORE_LIMIT, dir, sort_law, index, sleeps>>

(***************************************************************************)
(* asyncio.sleep(2 ** retries) returns, line 372, and the coroutine calls  *)
(* itself with retries + 1 and no max_retries argument, line 373.          *)
(***************************************************************************)
Retry(t) ==
    /\ pc = "awaiting"
    /\ tasks[t].pc = "backoff"
    /\ tasks' = [tasks EXCEPT ![t].pc = "acquiring",
                              ![t].retries = @ + 1,
                              ![t].max_retries = DefaultMaxRetries]
    /\ UNCHANGED <<crawlvars, purevars, written, SEMAPHORE_LIMIT, dir, files, pc, sort_law, index, semaphore, sleeps>>

\* the for statement takes the next file name, or ends the run
ForNext(i, n) == IF i + 1 < n THEN "loop" ELSE "done"

(***************************************************************************)
(* The as_completed loop ends, lines 337-341.                              *)
(***************************************************************************)
GroupDone ==
    /\ pc = "awaiting"
    /\ AllDone(tasks)
    /\ IF NeedsPacing(index, Len(sort_law))
         THEN /\ pc' = "sleeping"
              /\ sleeps' = sleeps + 1
              /\ index' = index
         ELSE /\ pc' = ForNext(index, Len(sort_law))
              /\ sleeps' = sleeps
              /\ index' = IF pc' = "loop" THEN index + 1 ELSE index
    /\ UNCHANGED <<crawlvars, purevars, written, SEMAPHORE_LIMIT, dir, files, sort_law, semaphore, tasks>>

\* asyncio.sleep(DELAY_BETWEEN_LAWS) returns and the loop goes on
NextGroup ==
    /\ pc = "sleeping"
    /\ pc' = ForNext(index, Len(sort_law))
    /\ index' = IF pc' = "loop" THEN index + 1 ELSE index
    /\ UNCHANGED <<crawlvars, purevars, written, SEMAPHORE_LIMIT, dir, files, sort_law, semaphore, tasks, sleeps>>

Next ==
    \/ StartRun
    \/ SubmitGroup
    \/ \E t \in DOMAIN tasks : Acquire(t)
    \/ \E t \in DOMAIN tasks : Complete(t)
    \/ \E t \in DOMAIN tasks : Retry(t)
    \/ GroupDone
    \/ NextGroup

Spec == Init /\ [][Next]_vars

(***************************************************************************)
(* download_all_pdfs called again, after a run has returned or raised.     *)
(***************************************************************************)
Rerun ==
    /\ pc \in {"done", "crashed"}
    /\ pc' = "start"
    /\ sort_law' = <<>>
    /\ index' = 0
    /\ semaphore' = 0
    /\ tasks' = <<>>
    /\ sleeps' = 0
    /\ written' = NoFiles
    /\ UNCHANGED <<crawlvars, purevars, SEMAPHORE_LIMIT, dir, files>>

NextRuns == Next \/ Rerun

SpecRuns == Init /\ [][NextRuns]_vars

(***************************************************************************)
(* fetch_law_details, lines 265-282: the records of a group page.  An      *)
(* item is a <p>, the sequence of its <a> elements in document order; an   *)
(* attribute is <<>> when missing and <<value>> when present; abbr is <<>> *)
(* for no <abbr> inside the anchor, else <<its title attribute>>.          *)
(***************************************************************************)
BASE_URL == "https://www.gesetze-im-internet.de/"

Anchor(href, text, title, abbr) ==
    [href |-> href, text |-> text, title |-> title, abbr |-> abbr]

\* urllib.parse.urljoin(base, href) on the hrefs of the model
urljoin(base, href) ==
    CASE href = "./bgb/index.html" -> "https://www.gesetze-im-internet.de/bgb/index.html"
      [] href = "./bgb/BGB.pdf" -> "https://www.gesetze-im-internet.de/bgb/BGB.pdf"
      [] href = "agg/index.html" -> "https://www.gesetze-im-internet.de/agg/index.html"
      [] href = "https://example.org/x.pdf" -> "https://example.org/x.pdf"

Whitespace == {" ", "\n", "\t"}

\* str.strip()
RECURSIVE strip(_)
strip(text) ==
    IF text = <<>> THEN text
    ELSE IF text[1] \in Whitespace THEN strip(Tail(text))
    ELSE IF text[Len(text)] \in Whitespace THEN strip(DropLast(text, 1))
    ELSE text

\* sub in s
Contains(s, sub) ==
    \E i \in 0..(Len(s) - Len(sub)) : SubSeq(s, i + 1, i + Len(sub)) = sub

\* item.find('a', ...): the first of the anchors at the positions I, <<>> for None
find(item, I) ==
    IF I = {} THEN <<>>
    ELSE <<item[CHOOSE i \in I : \A j \in I : i <= j]>>

\* href=True
HasHref(a) == a.href # <<>>

\* href=True, title=lambda t: t and 'PDF' in t
IsPdfTag(a) == HasHref(a) /\ a.title # <<>> /\ Contains(a.title[1], <<"P", "D", "F">>)

\* item.find('a', href=True)
find_law_link_tag(item) == find(item, {i \in DOMAIN item : HasHref(item[i])})

\* item.find('a', href=True, title=lambda t: t and 'PDF' in t)
find_pdf_link_tag(item) == find(item, {i \in DOMAIN item : IsPdfTag(item[i])})

\* law_link_tag.find('abbr')['title'] raises KeyError when the <abbr> has no title
RaisesKeyError(item) ==
    LET law_link_tag == find_law_link_tag(item)
    IN  law_link_tag # <<>> /\ law_link_tag[1].abbr = << <<>> >>

description(law_link_tag) ==
    IF law_link_tag.abbr # <<>> THEN law_link_tag.abbr[1][1] ELSE ""

\* the dict appended for an item with a law_link_tag
LawRecord(item) ==
    LET law_link_tag == find_law_link_tag(item)[1]
        pdf_link_tag == find_pdf_link_tag(item)
    IN  [webpage_link |-> urljoin(BASE_URL, law_link_tag.href[1]),
         title |-> strip(law_link_tag.text),
         description |-> description(law_link_tag),
         pdf_link |-> IF pdf_link_tag # <<>>
                        THEN urljoin(BASE_URL, pdf_link_tag[1].href[1])
                        ELSE NoLink]

\* each_law after the loop over table_items, which a KeyError leaves
RECURSIVE each_law(_)
each_law(table_items) ==
    IF table_items = <<>> THEN [raises |-> "", value |-> <<>>]
    ELSE LET before == each_law(DropLast(table_items, 1))
             item == table_items[Len(table_items)]
         IN  IF before.raises # "" THEN before
             ELSE IF find_law_link_tag(item) = <<>> THEN before
             ELSE IF RaisesKeyError(item) THEN [raises |-> "KeyError", value |-> <<>>]
             ELSE [raises |-> "", value |-> Append(before.value, LawRecord(item))]

(***************************************************************************)
(* The helpers called on their own, as the unit tests call them: one call  *)
(* per behaviour, the argument drawn from the sets below.                  *)
(***************************************************************************)
MaxNames == 3       \* sort_files is given at most this many file names
MaxItems == 2       \* a group page lists at most this many <p> items

RECURSIVE SeqsUpTo(_, _)
SeqsUpTo(S, n) ==
    IF n = 0 THEN {<<>>}
    ELSE LET shorter == SeqsUpTo(S, n - 1)
         IN  shorter \cup {Append(q, x) : q \in shorter, x \in S}

\* file names given to sort_files: letters, numbers, equal values, no identifier, empty
SortNames ==
    {Teilliste_B, Teilliste_a, Teilliste_2, Teilliste_10,
     <<"T", "_", "0", "2", ".", "j", "s", "o", "n">>,
     <<"l", "a", "w", ".", "j", "s", "o", "n">>,
     <<>>}

\* file names given to extract_laws_identifier: prefix, separator, identifier, ending
FileNames ==
    {prefix \o sep \o n \o ending :
        prefix \in {<<>>, <<"l", "a", "w">>, <<"a", "_", "1">>},
        sep \in {<<"_">>, <<"-">>, <<>>},
        n \in {<<>>, <<"7">>, <<"1", "0">>, <<"B">>, <<"a">>, <<"A", "B">>, <<"1", "a">>},
        ending \in {JsonSuffix, JsonSuffix \o <<"\n">>, JsonSuffix \o <<"l">>,
                    <<"x", "j", "s", "o", "n">>, <<".", "j", "s">>, <<>>}}

\* anchors of a group page
a_BGB ==
    Anchor(<<"./bgb/index.html">>, <<" ", "B", "G", "B", "\n">>, <<>>,
           << <<"Buergerliches Gesetzbuch">> >>)
a_BGB_pdf == Anchor(<<"./bgb/BGB.pdf">>, <<"P", "D", "F">>, << <<"P", "D", "F", " ", "B", "G", "B">> >>, <<>>)
a_AGG == Anchor(<<"agg/index.html">>, <<"A", " ", "G">>, << <<"p", "d", "f">> >>, <<>>)
a_name == Anchor(<<>>, <<"x">>, <<>>, <<>>)
a_untitled == Anchor(<<"agg/index.html">>, <<"A">>, <<>>, << <<>> >>)
a_extern == Anchor(<<"https://example.org/x.pdf">>, <<>>, << <<"a", "s", " ", "P", "D", "F">> >>, <<>>)

\* the <p> items a group page is made of
Items ==
    {<<>>, <<a_BGB, a_BGB_pdf>>, <<a_AGG>>, <<a_name>>, <<a_name, a_AGG, a_BGB_pdf>>,
     <<a_untitled>>, <<a_extern>>}

InitPure ==
    /\ SEMAPHORE_LIMIT = 1
    /\ dir = (full_laws_list :> <<>>)
    /\ files = NoFiles
    /\ pc = "start"
    /\ sort_law = <<>>
    /\ index = 0
    /\ semaphore = 0
    /\ tasks = <<>>
    /\ sleeps = 0
    /\ written = NoFiles
    /\ NoCrawl
    /\ ret = <<>>
    /\ \/ fn = "sort_files" /\ arg \in SeqsUpTo(SortNames, MaxNames)
       \/ fn = "extract_laws_identifier" /\ arg \in FileNames
       \/ fn = "fetch_law_details" /\ arg \in SeqsUpTo(Items, MaxItems)

Call_sort_files ==
    /\ fn = "sort_files"
    /\ ret = <<>>
    /\ ret' = <<sort_files(arg)>>
    /\ UNCHANGED <<crawlvars, fn, arg, SEMAPHORE_LIMIT, dir, files, pc, sort_law, index, semaphore,
                   tasks, sleeps, written>>

Call_extract_laws_identifier ==
    /\ fn = "extract_laws_identifier"
    /\ ret = <<>>
    /\ ret' = <<extract_laws_identifier(arg)>>
    /\ UNCHANGED <<crawlvars, fn, arg, SEMAPHORE_LIMIT, dir, files, pc, sort_law, index, semaphore,
                   tasks, sleeps, written>>

Call_fetch_law_details ==
    /\ fn = "fetch_law_details"
    /\ ret = <<>>
    /\ ret' = <<each_law(arg)>>
    /\ UNCHANGED <<crawlvars, fn, arg, SEMAPHORE_LIMIT, dir, files, pc, sort_law, index, semaphore,
                   tasks, sleeps, written>>

NextPure ==
    \/ Call_sort_files
    \/ Call_extract_laws_identifier
    \/ Call_fetch_law_details

SpecPure == InitPure /\ [][NextPure]_vars

(***************************************************************************)
(* start_download: home_page_list, get_laws_alphabetically_list,           *)
(* get_laws_by_alphabet, download_all_pdfs.  A response is what one        *)
(* request of the run is answered with; "content_2022" and "paddingLR12"   *)
(* say whether the page has the element of that id.                        *)
(***************************************************************************)
HOME_PAGE_LIST_FNAME == "home_page_list.json"
LAWS_LIST == "laws_list.json"
SEMAPHORE_LIMIT_default == 10

LinkRecord(text, href) == [text |-> text, href |-> href]

RootUrl == <<"/">>

\* the entry "Gesetze / Verordnungen" of the navigation
aktuell == LinkRecord("Gesetze / Verordnungen", <<"a", ".", "h", "t", "m", "l">>)

\* requests.get(BASE_URL): nav is <<>> for no element "nav_2022", else <<its links>>
RootResponses ==
    {[outcome |-> "RequestException", nav |-> <<>>],
     [outcome |-> "page", nav |-> <<>>],
     [outcome |-> "page", nav |-> << <<>> >>],
     [outcome |-> "page", nav |-> << <<aktuell>> >>]}

\* the <a> elements of the page of all groups; href is <<>> when missing
IndexAnchors ==
    {LinkRecord("B", << <<".", "/", "T", "_", "B", ".", "h", "t", "m", "l">> >>),
     LinkRecord("2", << <<".", "/", "T", "_", "2", ".", "h", "t", "m", "l">> >>),
     LinkRecord("sonst", << <<".", "/", "s", "o", "n", "s", "t", ".", "h", "t", "m", "l">> >>),
     LinkRecord("top", <<>>)}

Distinct(q) == \A i, j \in DOMAIN q : q[i] = q[j] => i = j

Page(outcome, content_2022, paddingLR12, elements) ==
    [outcome |-> outcome, content_2022 |-> content_2022, paddingLR12 |-> paddingLR12,
     elements |-> elements]

\* session.get of the page of all groups
IndexResponses ==
    {Page("ClientError", FALSE, FALSE, <<>>), Page("TimeoutError", FALSE, FALSE, <<>>),
     Page("page", FALSE, FALSE, <<>>), Page("page", TRUE, FALSE, <<>>)}
    \cup {Page("page", TRUE, TRUE, a) :
              a \in {q \in SeqsUpTo(IndexAnchors, MaxGroups) : Distinct(q)}}

\* session.get of a group page
GroupResponses ==
    {Page("ClientError", FALSE, FALSE, <<>>), Page("TimeoutError", FALSE, FALSE, <<>>),
     Page("page", FALSE, FALSE, <<>>), Page("page", TRUE, FALSE, <<>>),
     Page("page", TRUE, TRUE, << <<a_BGB, a_BGB_pdf>> >>),
     Page("page", TRUE, TRUE, << <<a_AGG>>, <<a_extern>> >>),
     Page("page", TRUE, TRUE, << <<a_untitled>> >>)}

\* re.sub("." + tail, "", s): every character followed by tail is removed with it
RECURSIVE re_sub(_, _)
re_sub(tail, s) ==
    IF s = <<>> THEN <<>>
    ELSE IF /\ Len(s) > Len(tail)
            /\ SubSeq(s, 2, 1 + Len(tail)) = tail
            /\ s[1] # "\n"
        THEN re_sub(tail, SubSeq(s, 2 + Len(tail), Len(s)))
    ELSE <<s[1]>> \o re_sub(tail, Tail(s))

\* url.split("/")[-1]
RECURSIVE LastSegment(_)
LastSegment(url) ==
    IF url = <<>> \/ url[Len(url)] = "/" THEN <<>>
    ELSE Append(LastSegment(DropLast(url, 1)), url[Len(url)])

\* re.sub(".html", "", url.split("/")[-1]) + ".json"; urljoin keeps the href's last segment
law_file_name(href) == re_sub(<<"h", "t", "m", "l">>, LastSegment(href)) \o JsonSuffix

\* get_page_object and fetch_page: the page, or None (<<>>) for the errors they catch
page_object(response) ==
    IF response.outcome = "page" THEN <<response>> ELSE <<>>

\* home_page_list that returns None where the code calls exit(1)
home_page_list_returns(found) == ""

\* home_page_list ends by returning data ("") or by exit(1)
home_page_list_ends(found) == IF found THEN "" ELSE "SystemExit"

\* async_get_laws_alphabetically_list from session.get on
laws_alphabetically(response) ==
    LET obj == page_object(response)
        NoList == [raises |-> "", writes |-> FALSE, llist |-> <<>>]
    IN  IF response.outcome = "TimeoutError"
            THEN [NoList EXCEPT !.raises = "TimeoutError"]
        ELSE IF obj = <<>> \/ ~obj[1].content_2022 THEN NoList
        ELSE IF ~obj[1].paddingLR12 THEN [NoList EXCEPT !.raises = "AttributeError"]
        ELSE IF \E i \in DOMAIN obj[1].elements : obj[1].elements[i].href = <<>>
            THEN [NoList EXCEPT !.raises = "TypeError"]
        ELSE [raises |-> "", writes |-> TRUE,
              llist |-> [i \in DOMAIN obj[1].elements |->
                           LinkRecord(obj[1].elements[i].text,
                                      re_sub(<<"/">>, obj[1].elements[i].href[1]))]]

\* fetch_law_details from session.get on
law_details(response) ==
    LET obj == page_object(response)
        Nothing == [raises |-> "", found |-> FALSE, value |-> <<>>]
    IN  IF response.outcome = "TimeoutError"
            THEN [Nothing EXCEPT !.raises = "TimeoutError"]
        ELSE IF obj = <<>> \/ ~obj[1].content_2022 \/ ~obj[1].paddingLR12 THEN Nothing
        ELSE LET each == each_law(obj[1].elements)
             IN  [raises |-> each.raises, found |-> each.raises = "", value |-> each.value]

\* laws_info = each_law where the code extends
extend_replaces(info, each) == each

\* laws_info.extend(each_law)
extend(info, each) == info \o each

\* what an earlier run has left in DIR
EarlierData ==
    (HOME_PAGE_LIST_FNAME :> <<aktuell>>) @@ (LAWS_LIST :> <<>>)

EarlierDir == Restrict(GroupFiles, {Teilliste_2}) @@ (full_laws_list :> <<>>)

InitCrawl ==
    /\ SEMAPHORE_LIMIT = SEMAPHORE_LIMIT_default
    /\ \E earlier \in BOOLEAN :
          /\ dir = IF earlier THEN EarlierDir ELSE NoFiles
          /\ data = IF earlier THEN EarlierData ELSE NoFiles
          /\ files = IF earlier THEN StaleFiles ELSE NoFiles
    /\ pc = "start"
    /\ sort_law = <<>>
    /\ index = 0
    /\ semaphore = 0
    /\ tasks = <<>>
    /\ sleeps = 0
    /\ written = NoFiles
    /\ NoCall
    /\ stage = "home_page_list"
    /\ error = ""
    /\ web = <<>>
    /\ laws_list = <<>>
    /\ pending = {}
    /\ laws_info = <<>>
    /\ order = <<>>
    /\ full_writes = 0

dlvars == <<SEMAPHORE_LIMIT, files, pc, sort_law, index, semaphore, tasks, sleeps, written>>

(***************************************************************************)
(* home_page_list, lines 192-201.                                          *)
(***************************************************************************)
home_page_list ==
    /\ stage = "home_page_list"
    /\ error = ""
    /\ \E response \in RootResponses :
          LET obj == page_object(response)
              found == obj # <<>> /\ obj[1].nav # <<>>
          IN  /\ web' = Put(web, RootUrl, response)
              /\ data' = IF found THEN Put(data, HOME_PAGE_LIST_FNAME, obj[1].nav[1])
                                  ELSE data
              /\ error' = home_page_list_ends(found)
              /\ stage' = IF error' = "" THEN "get_laws_alphabetically_list" ELSE stage
    /\ UNCHANGED <<dlvars, dir, purevars, laws_list, pending, laws_info, order, full_writes>>

(***************************************************************************)
(* get_laws_alphabetically_list, lines 210-226.                            *)
(***************************************************************************)
get_laws_alphabetically_list ==
    /\ stage = "get_laws_alphabetically_list"
    /\ error = ""
    /\ IF HOME_PAGE_LIST_FNAME \notin DOMAIN data
          THEN error' = "FileNotFoundError" /\ UNCHANGED <<stage, web, data, laws_list>>
       ELSE IF data[HOME_PAGE_LIST_FNAME] = <<>>
          THEN error' = "IndexError" /\ UNCHANGED <<stage, web, data, laws_list>>
       ELSE \E response \in IndexResponses :
               LET result == laws_alphabetically(response)
               IN  /\ web' = Put(web, data[HOME_PAGE_LIST_FNAME][1].href, response)
                   /\ error' = result.raises
                   /\ data' = IF result.writes THEN Put(data, LAWS_LIST, result.llist)
                                                ELSE data
                   /\ laws_list' = IF error' = "" THEN result.llist ELSE laws_list
                   /\ stage' = IF error' = "" THEN "get_laws_by_alphabet" ELSE stage
    /\ UNCHANGED <<dlvars, dir, purevars, pending, laws_info, order, full_writes>>

(***************************************************************************)
(* get_laws_by_alphabet up to asyncio.gather, lines 238-243.               *)
(***************************************************************************)
get_laws_by_alphabet ==
    /\ stage = "get_laws_by_alphabet"
    /\ error = ""
    /\ laws_info' = <<>>
    /\ order' = <<>>
    /\ pending' = DOMAIN laws_list
    /\ stage' = "gather"
    /\ UNCHANGED <<dlvars, dir, purevars, error, web, data, laws_list, full_writes>>

(***************************************************************************)
(* One fetch_law_details task from its response on, lines 259-286; an      *)
(* exception it raises leaves gather and ends start_download.              *)
(***************************************************************************)
fetch_law_details(i) ==
    /\ stage = "gather"
    /\ error = ""
    /\ i \in pending
    /\ \E response \in GroupResponses :
          LET details == law_details(response)
              wrote == details.raises = "" /\ details.found
          IN  /\ web' = Put(web, laws_list[i].href, response)
              /\ error' = details.raises
              /\ pending' = IF error' = "" THEN pending \ {i} ELSE pending
              /\ laws_info' = IF wrote THEN extend(laws_info, details.value) ELSE laws_info
              /\ order' = IF wrote THEN Append(order, i) ELSE order
              /\ dir' = IF wrote
                          THEN Put(dir, law_file_name(laws_list[i].href), details.value)
                          ELSE dir
    /\ UNCHANGED <<dlvars, purevars, stage, data, laws_list, full_writes>>

(***************************************************************************)
(* get_laws_by_alphabet after asyncio.gather, lines 245-246.               *)
(***************************************************************************)
gather_returns ==
    /\ stage = "gather"
    /\ error = ""
    /\ pending = {}
    /\ dir' = Put(dir, full_laws_list, laws_info)
    /\ full_writes' = full_writes + 1
    /\ stage' = "download_all_pdfs"
    /\ UNCHANGED <<dlvars, purevars, error, web, data, laws_list, pending, laws_info, order>>

\* start_download, line 389
download_all_pdfs ==
    /\ stage = "download_all_pdfs"
    /\ error = ""
    /\ Next

NextCrawl ==
    \/ home_page_list
    \/ get_laws_alphabetically_list
    \/ get_laws_by_alphabet
    \/ \E i \in pending : fetch_law_details(i)
    \/ gather_returns
    \/ download_all_pdfs

SpecCrawl == InitCrawl /\ [][NextCrawl]_vars

(***************************************************************************)
(* download_single_pdf called on its own, as test_download_single_pdf      *)
(* calls it, with a retry limit of the caller's choice: arg is the         *)
(* max_retries passed.                                                     *)
(***************************************************************************)
MaxArg == 3         \* max_retries passed by the caller: 0..MaxArg

TestPath == PdfPath(<<"B">>, <<"c">>)

InitSingle ==
    /\ SEMAPHORE_LIMIT = SEMAPHORE_LIMIT_default
    /\ dir = (full_laws_list :> <<>>)
    /\ files \in {NoFiles, Put(NoFiles, TestPath, "%PDF-0")}
    /\ pc = "awaiting"
    /\ sort_law = <<>>
    /\ index = 0
    /\ semaphore = SEMAPHORE_LIMIT
    /\ sleeps = 0
    /\ written = NoFiles
    /\ NoCrawl
    /\ fn = "download_single_pdf"
    /\ arg \in 0..MaxArg
    /\ ret = <<>>
    /\ tasks = <<NewTask(TestPath, "u1", DefaultRetries, arg)>>

NextSingle ==
    \/ \E t \in DOMAIN tasks : Acquire(t)
    \/ \E t \in DOMAIN tasks : Complete(t)
    \/ \E t \in DOMAIN tasks : Retry(t)

SpecSingle == InitSingle /\ [][NextSingle]_vars

(***************************************************************************)
(* The group-detail stage run again: get_laws_by_alphabet called once more *)
(* with the list of groups, before any download.                           *)
(***************************************************************************)
InitFresh == InitCrawl /\ dir = NoFiles

get_laws_by_alphabet_again ==
    /\ stage = "download_all_pdfs"
    /\ error = ""
    /\ pc = "start"
    /\ stage' = "get_laws_by_alphabet"
    /\ web' = Restrict(web, DOMAIN web \ {laws_list[i].href : i \in DOMAIN laws_list})
    /\ full_writes' = 0
    /\ UNCHANGED <<dlvars, dir, purevars, error, data, laws_list, pending, laws_info, order>>

NextRecrawl ==
    \/ home_page_list
    \/ get_laws_alphabetically_list
    \/ get_laws_by_alphabet
    \/ \E i \in pending : fetch_law_details(i)
    \/ gather_returns
    \/ get_laws_by_alphabet_again

SpecRecrawl == InitFresh /\ [][NextRecrawl]_vars

(***************************************************************************)
(* Notions the properties below are stated in.                             *)
(***************************************************************************)
Tasks == DOMAIN tasks

InFlight == {t \in Tasks : tasks[t].pc = "transferring"}

InsideGate == {t \in Tasks : tasks[t].held > 0}

RECURSIVE SlotsHeld(_)
SlotsHeld(ts) == IF ts = <<>> THEN 0 ELSE ts[Len(ts)].held + SlotsHeld(DropLast(ts, 1))

Running == pc \in {"loop", "awaiting", "sleeping"}

\* the transient transport failures: connection errors and timeouts
Transient == {"ClientOSError", "TimeoutError", "TimeoutError_read"}

\* the step ends an attempt of task t
EndsAttempt(t) == tasks[t].pc = "transferring" /\ tasks'[t].pc # "transferring"

\* the step ends task t in failure
Fails(t) ==
    /\ tasks[t].pc = "transferring"
    /\ tasks'[t].pc \in {"PermanentlyFailed", "Abandoned"}

\* the identifier of the i-th group of the run
IdOf(i) == extract_laws_identifier(sort_law[i])

\* identifier order: single letters first, in code-point order, then numbers by value
IdBefore(a, b) ==
    \/ IsAlpha(a) /\ ~IsAlpha(b)
    \/ IsAlpha(a) /\ IsAlpha(b) /\ PosIn(a[1], AsciiLetters) < PosIn(b[1], AsciiLetters)
    \/ ~IsAlpha(a) /\ ~IsAlpha(b) /\ ToInt(a) < ToInt(b)

(***************************************************************************)
(* C1: at no instant of a run are more than K transfers in flight, nor     *)
(* more than K tasks inside the gate, for every capacity K; the gate is    *)
(* the one semaphore of the run, whose value and the slots held always add *)
(* up to K.                                                                *)
(***************************************************************************)
C1_GateBound ==
    /\ Cardinality(InFlight) <= SEMAPHORE_LIMIT
    /\ Cardinality(InsideGate) <= SEMAPHORE_LIMIT
    /\ Running => /\ semaphore >= 0
                  /\ semaphore + SlotsHeld(tasks) = SEMAPHORE_LIMIT

\* the gate is full with a transfer in flight per slot and another task waits for it
C1_Witness ==
    /\ Cardinality(InFlight) = SEMAPHORE_LIMIT
    /\ \E t \in Tasks : tasks[t].pc = "acquiring"

(***************************************************************************)
(* C2: every task reaches a terminal state and the run finishes.  Stated   *)
(* so that a finite run refutes it: a run that has not ended can always    *)
(* take a step.                                                            *)
(***************************************************************************)
C2_RunCanProceed == pc \in {"done", "crashed"} \/ ENABLED Next

(***************************************************************************)
(* C3, as claimed: a task with the default retry settings makes at most 5  *)
(* transfer attempts.                                                      *)
(***************************************************************************)
C3_AtMostFiveAttempts == \A t \in Tasks : tasks[t].attempts <= 5

(***************************************************************************)
(* C3, amended: a task with the default retry settings makes at most 6     *)
(* transfer attempts, the first and up to max_retries = 5 retries.         *)
(***************************************************************************)
C3_AtMostSixAttempts == \A t \in Tasks : tasks[t].attempts <= DefaultMaxRetries + 1

\* a task in its sixth attempt
C3_Witness == \E t \in Tasks : tasks[t].attempts = 6 /\ tasks[t].pc = "transferring"

(***************************************************************************)
(* C4: a task that has ended after failing transiently on every attempt    *)
(* (connection errors, timeouts) has failed for good, never opened its     *)
(* destination file, and made no 6th retry.                                *)
(***************************************************************************)
C4_RetryExhaustion ==
    \A t \in Tasks :
        /\ tasks[t].retries <= 5
        /\ Len(tasks[t].delays) <= 5
        /\ (tasks[t].pc \in Terminal /\ tasks[t].last \in Transient) =>
              /\ tasks[t].pc \in {"PermanentlyFailed", "Abandoned"}
              /\ tasks[t].writes = 0

(***************************************************************************)
(* C5: the i-th backoff delay of a task is 2^(i-1) seconds, so the delays  *)
(* of a task strictly increase; a task that succeeds on its 4th attempt    *)
(* has waited exactly 1, 2, 4 and has written the body to its file.        *)
(***************************************************************************)
C5_Backoff ==
    \A t \in Tasks :
        LET d == tasks[t].delays IN
        /\ \A i \in DOMAIN d : d[i] = 2 ^ (i - 1)
        /\ \A i \in DOMAIN d : i > 1 => d[i - 1] < d[i]
        /\ Len(d) = IF tasks[t].pc \in {"acquiring", "backoff"} THEN tasks[t].attempts
                    ELSE tasks[t].attempts - 1
        /\ (tasks[t].pc = "Succeeded" /\ tasks[t].attempts = 4) =>
              /\ d = <<1, 2, 4>>
              /\ tasks[t].writes = 1
              /\ tasks[t].pdf_path \in DOMAIN files
              /\ (\A u \in Tasks \ {t} : tasks[u].pdf_path # tasks[t].pdf_path) =>
                    files[tasks[t].pdf_path] = tasks[t].body

\* three transient failures, then a 200 response
C5_Witness ==
    \E t \in Tasks :
        /\ tasks[t].pc = "Succeeded"
        /\ tasks[t].attempts = 4
        /\ Len(tasks[t].delays) = 3
        /\ files[tasks[t].pdf_path] = tasks[t].body

(***************************************************************************)
(* C6: a task whose latest attempt failed transiently (timeout or          *)
(* connection error) and whose retry budget is not used up has not ended:  *)
(* it is backing off or trying again.                                      *)
(***************************************************************************)
C6_TransientRetried ==
    \A t \in Tasks :
        (tasks[t].last \in Transient /\ tasks[t].retries < tasks[t].max_retries) =>
            tasks[t].pc \notin Terminal

(***************************************************************************)
(* C7: the step in which an attempt is answered with a non-success status  *)
(* makes the task PermanentlyFailed, with no backoff and with every file   *)
(* left as it was; and a task that has ended makes no further step.        *)
(***************************************************************************)
C7_StatusStep(t) ==
    (EndsAttempt(t) /\ tasks'[t].last = "status") =>
        /\ tasks'[t].pc = "PermanentlyFailed"
        /\ tasks'[t].delays = tasks[t].delays
        /\ tasks'[t].attempts = tasks[t].attempts
        /\ tasks'[t].held = 0
        /\ files' = files

C7_EndedStays(t) ==
    (pc = "awaiting" /\ tasks[t].pc \in Terminal) => tasks'[t] = tasks[t]

\* C7: both hold of every step of every task
C7_StatusIsFinal ==
    [][\A t \in Tasks : C7_StatusStep(t) /\ C7_EndedStays(t)]_vars

\* a task failed by a status answer on its first attempt, its path not created
C7_Witness ==
    \E t \in Tasks :
        /\ tasks[t].pc = "PermanentlyFailed"
        /\ tasks[t].last = "status"
        /\ tasks[t].attempts = 1
        /\ tasks[t].pdf_path \notin DOMAIN files

(***************************************************************************)
(* C8: the step in which a task fails for good or is abandoned leaves the  *)
(* run going and every sibling as it was, and returns every slot the task  *)
(* held; the run ends only with every task of the last group ended, or by  *)
(* a group file without identifier, never by a task.                       *)
(***************************************************************************)
C8_FailStep(t) ==
    Fails(t) =>
        /\ pc' = "awaiting"
        /\ \A u \in Tasks \ {t} : tasks'[u] = tasks[u]
        /\ tasks'[t].held = 0
        /\ semaphore' = semaphore + tasks[t].held
        /\ UNCHANGED <<sort_law, index, sleeps>>

C8_RunEnds ==
    /\ pc = "done" /\ sort_law # <<>> => AllDone(tasks) /\ index = Len(sort_law) - 1
    /\ pc = "crashed" => extract_laws_identifier(sort_law[index + 1]) = None

C9_Sorted ==
    \A i, j \in DOMAIN sort_law :
        (i < j /\ IdOf(i) # None /\ IdOf(j) # None) => ~IdBefore(IdOf(j), IdOf(i))

C9_CurrentGroupOnly ==
    pc \in {"awaiting", "sleeping"} =>
        \A t \in Tasks : tasks[t].pdf_path[1] = IdOf(index + 1)

C9_GroupStep ==
    /\ (pc = "loop" /\ pc' = "awaiting") =>
          /\ AllDone(tasks)
          /\ \A t \in DOMAIN tasks' : tasks'[t].pc = "acquiring" /\ tasks'[t].attempts = 0
    /\ index' # index => index' = index + 1 /\ AllDone(tasks)
    /\ tasks' # tasks => pc \in {"loop", "awaiting"}
    /\ sort_law' # sort_law => pc = "start" /\ C9_Sorted'

\* C9: groups are started one after the other, in identifier order
C9_GroupOrder == [](C9_CurrentGroupOnly) /\ [][C9_GroupStep]_vars

\* the second group, a later identifier than the first, has a transfer in flight
C9_Witness ==
    /\ pc = "awaiting"
    /\ index = 1
    /\ IdBefore(IdOf(1), IdOf(2))
    /\ InFlight # {}

(***************************************************************************)
(* C10: a run over N groups makes N-1 pacing delays: one after each group  *)
(* but the last, when every task of the group has ended and before the     *)
(* next group is started, none after the last.                             *)
(***************************************************************************)
C10_Pacing ==
    /\ pc = "done" => sleeps = IF sort_law = <<>> THEN 0 ELSE Len(sort_law) - 1
    /\ Running => sleeps = index + (IF pc = "sleeping" THEN 1 ELSE 0)
    /\ pc = "sleeping" => AllDone(tasks) /\ index < Len(sort_law) - 1
    /\ pc = "crashed" => sleeps = index

\* a run over two groups has ended after one pacing delay
C10_Witness ==
    /\ pc = "done"
    /\ Len(sort_law) = 2
    /\ sleeps = 1
    /\ tasks # <<>>

(***************************************************************************)
(* C11: the tasks of a group are exactly one per record that has a         *)
(* pdf_link; a record whose pdf_link is absent gets no task, so none that  *)
(* takes a slot of the gate or attempts a transfer.                        *)
(***************************************************************************)
C11_OneTaskPerLinkedRecord ==
    pc = "awaiting" =>
        LET content == dir[sort_law[index + 1]]
            linked == {i \in DOMAIN content : content[i].pdf_link # NoLink}
        IN  /\ Len(tasks) = Cardinality(linked)
            /\ \A t \in Tasks : /\ tasks[t].pdf_link # NoLink
                                /\ tasks[t].pdf_link = NoLink =>
                                       tasks[t].held = 0 /\ tasks[t].attempts = 0

(***************************************************************************)
(* C12: after any sequence of runs of download_all_pdfs, every file in the *)
(* PDF directory was written by a successful transfer of the latest run.   *)
(***************************************************************************)
C12_OnlyLatestTransfers == pc # "start" => DOMAIN files \subseteq DOMAIN written

(***************************************************************************)
(* C13: a path that a transfer of the run has succeeded on holds the body  *)
(* of the latest successful transfer to it, whatever attempts to the same  *)
(* path followed.                                                          *)
(***************************************************************************)
C13_LatestSuccessfulBody ==
    \A path \in DOMAIN written : path \in DOMAIN files /\ files[path] = written[path]

\* the name ends in "_" + n + ".json" for n = name[i+1 .. end of the stem]
IdentifierAt(name, i) ==
    LET n == SubSeq(name, i + 1, Len(name) - Len(JsonSuffix))
    IN  /\ name[i] = "_"
        /\ EndsWith(name, JsonSuffix)
        /\ n # <<>>
        /\ \/ \A k \in DOMAIN n : IsDigit(n[k])
           \/ Len(n) = 1 /\ IsLetter(n[1])

\* some name carries no identifier
NoIdentifier(name) == \A i \in DOMAIN name : ~IdentifierAt(name, i)

\* how often x occurs in q
C18_Count(q, x) == Cardinality({i \in DOMAIN q : q[i] = x})

\* 1 for a letter identifier, 2 for a numeric one, 3 for none
C18_Rank(name) ==
    LET identifier == extract_laws_identifier(name)
    IN  IF identifier = None THEN 3 ELSE IF IsAlpha(identifier) THEN 1 ELSE 2

(***************************************************************************)
(* C18: sort_files returns a permutation of its argument in which names    *)
(* with a letter identifier come first, in the order of the letters, then  *)
(* names with a numeric identifier, by value ("2" before "10"), then the   *)
(* names with no identifier; no two keys it compares are of unlike types,  *)
(* so the sort never fails.                                                *)
(***************************************************************************)
C18_SortOrder ==
    (fn = "sort_files" /\ ret # <<>>) =>
        LET out == ret[1]
        IN  /\ \A x \in SortNames : C18_Count(out, x) = C18_Count(arg, x)
            /\ Len(out) = Len(arg)
            /\ \A i, j \in DOMAIN out : i < j =>
                   LET a == extract_laws_identifier(out[i])
                       b == extract_laws_identifier(out[j])
                   IN  /\ C18_Rank(out[i]) <= C18_Rank(out[j])
                       /\ (a # None /\ b # None) => ~IdBefore(b, a)
            /\ \A i, j \in DOMAIN arg :
                   sort_key(arg[i])[1] = sort_key(arg[j])[1] =>
                       C18_Rank(arg[i]) = C18_Rank(arg[j])

\* "10", no identifier, "2", a letter: returned as the letter, "2", "10", no identifier
C18_Witness ==
    /\ fn = "sort_files"
    /\ arg = <<Teilliste_10, <<>>, Teilliste_2>>
    /\ ret = << <<Teilliste_2, Teilliste_10, <<>> >> >>

(***************************************************************************)
(* C19: for a name ending in "_" + n + ".json", n a non-empty run of       *)
(* digits or a single letter, extract_laws_identifier returns n; for a     *)
(* name with no such ending it returns None.                               *)
(***************************************************************************)
C19_Identifier ==
    (fn = "extract_laws_identifier" /\ ret # <<>>) =>
        /\ \A i \in DOMAIN arg :
               IdentifierAt(arg, i) =>
                   ret[1] = SubSeq(arg, i + 1, Len(arg) - Len(JsonSuffix))
        /\ NoIdentifier(arg) => ret[1] = None

\* the links of an item: its anchors that carry an href
Links(item) == SelectSeq(item, HasHref)

\* the links of an item whose advisory title contains "PDF"
PdfLinks(item) == SelectSeq(item, IsPdfTag)

\* t is text without the white space around it
Trimmed(t, text) ==
    /\ t = <<>> \/ (t[1] \notin Whitespace /\ t[Len(t)] \notin Whitespace)
    /\ \E i \in 0..Len(text) :
          /\ i + Len(t) <= Len(text)
          /\ SubSeq(text, i + 1, i + Len(t)) = t
          /\ \A k \in DOMAIN text : (k <= i \/ k > i + Len(t)) => text[k] \in Whitespace

(***************************************************************************)
(* C20: the extraction of a group page yields one record per item that     *)
(* has a link, in page order, and none for an item without one; its        *)
(* webpage_link is the first link's href resolved against BASE_URL, its    *)
(* title the trimmed text of that link, its description the title of the   *)
(* link's <abbr>, "" when it has no <abbr>, and its pdf_link is present    *)
(* exactly when the item has a link whose title contains "PDF", and is     *)
(* then that link's href resolved.                                         *)
(***************************************************************************)
C20_Records ==
    (fn = "fetch_law_details" /\ ret # <<>>) =>
        LET items == SelectSeq(arg, LAMBDA item : Links(item) # <<>>)
            records == ret[1].value
        IN  /\ ret[1].raises = ""
            /\ Len(records) = Len(items)
            /\ \A k \in DOMAIN items :
                   LET primary == Links(items[k])[1]
                       pdfs == PdfLinks(items[k])
                   IN  /\ records[k].webpage_link = urljoin(BASE_URL, primary.href[1])
                       /\ Trimmed(records[k].title, primary.text)
                       /\ primary.abbr = <<>> => records[k].description = ""
                       /\ (primary.abbr # <<>> /\ primary.abbr[1] # <<>>) =>
                              records[k].description = primary.abbr[1][1]
                       /\ (pdfs # <<>>) <=> (records[k].pdf_link # NoLink)
                       /\ pdfs # <<>> =>
                              records[k].pdf_link = urljoin(BASE_URL, pdfs[1].href[1])

\* the index stage has not obtained the navigation: the fetch failed or it is missing
IndexFailed ==
    /\ RootUrl \in DOMAIN web
    /\ web[RootUrl].outcome # "page" \/ web[RootUrl].nav = <<>>

\* the response to the request for the page of group i
Fetched(i) == laws_list[i].href \in DOMAIN web

GroupResponse(i) == web[laws_list[i].href]

\* the page of group i failed to fetch or lacks a container
GroupFailed(i) ==
    /\ Fetched(i)
    /\ \/ GroupResponse(i).outcome # "page"
       \/ ~GroupResponse(i).content_2022
       \/ ~GroupResponse(i).paddingLR12

\* the page of group i was fetched and its records extracted
GroupSucceeded(i) ==
    /\ Fetched(i)
    /\ ~GroupFailed(i)
    /\ each_law(GroupResponse(i).elements).raises = ""

\* the records on the page of group i
GroupRecords(i) == each_law(GroupResponse(i).elements).value

\* the records of the groups of q, one group after the other
RECURSIVE Concatenation(_)
Concatenation(q) ==
    IF q = <<>> THEN <<>>
    ELSE Concatenation(DropLast(q, 1)) \o GroupRecords(q[Len(q)])

InGroupStage == stage \in {"gather", "download_all_pdfs"}

\* a failed index stage has ended start_download with exit(1)
C14_Exits == IndexFailed => stage = "home_page_list" /\ error = "SystemExit"

\* no step starts after the failure, and the step that fails touches no file
C14_NothingElse ==
    /\ ~IndexFailed
    /\ IndexFailed' => UNCHANGED <<data, dir, dlvars, laws_list, pending, laws_info,
                                    order, full_writes>>

(***************************************************************************)
(* C14: when the index stage cannot obtain the navigation, because the     *)
(* fetch fails or the container is missing, start_download exits with      *)
(* SystemExit(1) in home_page_list: the step that finds it writes no file  *)
(* and clears no directory, and no step follows it.                        *)
(***************************************************************************)
C14_IndexStageFatal == [](C14_Exits) /\ [][C14_NothingElse]_vars

\* the run has exited at the index stage, the files of an earlier run still in place
C14_Witness ==
    /\ IndexFailed
    /\ error = "SystemExit"
    /\ files = StaleFiles
    /\ data = EarlierData
    /\ dir = EarlierDir

(***************************************************************************)
(* C15: a group whose page fails to fetch or lacks a container is not      *)
(* fatal: its task ends without an exception, and when the stage is over   *)
(* the file of every group that succeeded is persisted and its records are *)
(* in the full catalog.                                                    *)
(***************************************************************************)
C15_GroupFailureNotFatal ==
    InGroupStage =>
        /\ \A i \in DOMAIN laws_list : GroupFailed(i) => i \notin pending
        /\ stage = "download_all_pdfs" =>
               \A i \in DOMAIN laws_list :
                   GroupSucceeded(i) =>
                       /\ dir[law_file_name(laws_list[i].href)] = GroupRecords(i)
                       /\ \A k \in DOMAIN GroupRecords(i) :
                              \E n \in DOMAIN dir[full_laws_list] :
                                  dir[full_laws_list][n] = GroupRecords(i)[k]

\* the catalog is written when, and only when, the group stage is over
C16_WrittenOnce ==
    /\ full_writes = IF stage = "download_all_pdfs" THEN 1 ELSE 0
    /\ full_writes = 1 => pending = {}

\* laws_info, and the catalog once written, hold the completed groups one after the other
C16_Concatenated ==
    /\ InGroupStage =>
           /\ Distinct(order)
           /\ Range(order) = {i \in DOMAIN laws_list : GroupSucceeded(i) /\ i \notin pending}
           /\ laws_info = Concatenation(order)
    /\ full_writes = 1 => dir[full_laws_list] = Concatenation(order)

(***************************************************************************)
(* C16: whatever the order in which the group fetches complete, the full   *)
(* catalog is written once, when every fetch has completed, and is the     *)
(* concatenation of the record sequences of the groups that succeeded, in  *)
(* the order they completed: each group's records contiguous and in page   *)
(* order, none lost or duplicated.                                         *)
(***************************************************************************)
C16_FullCatalog ==
    /\ [](C16_WrittenOnce)
    /\ [][<<crawlvars, dir>>' # <<crawlvars, dir>> => C16_Concatenated']_vars

\* two groups with records, the second completed first, and the catalog is written
C16_Witness ==
    /\ stage = "download_all_pdfs"
    /\ order = <<2, 1>>
    /\ GroupRecords(1) # <<>>
    /\ GroupRecords(2) # <<>>
    /\ GroupRecords(1) # GroupRecords(2)
    /\ dir[full_laws_list] = GroupRecords(2) \o GroupRecords(1)

(***************************************************************************)
(* C17: once the index stage has succeeded, start_download runs through    *)
(* the later stages and the downloader whatever fails there: no exception  *)
(* ends it after the index stage.                                          *)
(***************************************************************************)
C17_OnlyIndexStageFatal ==
    /\ error # "" => stage = "home_page_list"
    /\ pc # "crashed"

(***************************************************************************)
(* C21: no two tasks of a run have the same destination path, whatever     *)
(* the titles of the group's records, so no file is written by two tasks.  *)
(***************************************************************************)
C21_UniqueDestinations ==
    \A t, u \in Tasks : tasks[t].pdf_path = tasks[u].pdf_path => t = u

(***************************************************************************)
(* C22: at every instant a task holds at most one slot of the gate, and    *)
(* none while it waits out a backoff delay.                                *)
(***************************************************************************)
C22_OneSlotPerTask ==
    \A t \in Tasks :
        /\ tasks[t].held <= 1
        /\ tasks[t].pc = "backoff" => tasks[t].held = 0

(***************************************************************************)
(* C23: download_single_pdf called with max_retries = m and retries = 0    *)
(* keeps m as its limit on every attempt: it makes at most m + 1 attempts, *)
(* and a task that has failed permanently on connection errors alone has   *)
(* made exactly m retries.                                                 *)
(***************************************************************************)
C23_LimitHonoured ==
    fn = "download_single_pdf" =>
        \A t \in Tasks :
            /\ tasks[t].max_retries = arg
            /\ tasks[t].attempts <= arg + 1
            /\ (tasks[t].pc = "PermanentlyFailed" /\ tasks[t].last = "ClientOSError") =>
                   tasks[t].retries = arg

\* the records held by the persisted per-group files
GroupFileRecords ==
    UNION {Range(dir[f]) : f \in list_files_in_directory(dir, full_laws_list)}

(***************************************************************************)
(* C24: after any sequence of runs of the group-detail stage, the records  *)
(* held by the persisted per-group files are exactly the records of the    *)
(* persisted full catalog, that of the latest run.                         *)
(***************************************************************************)
C24_LatestRunOnly ==
    stage = "download_all_pdfs" => GroupFileRecords = Range(dir[full_laws_list])

====
